---- MODULE Spec2Model ----
(***************************************************************************)
(* A model of src/common.c: the maze grid utilities is_in_range,           *)
(* get_neighbor and initialize_maze, with the caller-owned grid as state.  *)
(*                                                                         *)
(* A pointer to a room of the grid, &maze[a][b], is the pair <<a, b>>; it  *)
(* lies inside the grid's storage iff the pair is in Cells.  What a room   *)
(* STORES in its row and col fields is separate state (maze[p].row,        *)
(* maze[p].col): get_neighbor reads the stored fields, not the position.   *)
(***************************************************************************)
EXTENDS Integers, Sequences, FiniteSets, TLC

VARIABLES
    num_rows,   \* the grid's dimensions, as passed to every function
    num_cols,
    maze,       \* the grid storage: [Cells -> room record]
    maze0,      \* parallel initialization: the storage's content at allocation
    pc,         \* the driver's position: "alloc", "init" (in initialize_maze), "ready"
    i,          \* initialize_maze's loop variables
    j,
    written,    \* history: the cells initialize_maze assigned, in order
    last,       \* the last call of is_in_range / get_neighbor, its result, and
                \* whether the grid after the call was the grid before it (kept)
    back,       \* the same for the return lookup made from last's result
    nwrites,    \* number of external writes to walls / visited so far
    rd,         \* the concurrent readers' get_neighbor calls in progress
    axis,       \* parallel initialization: what is partitioned ("rows" / "cols")
    owner,      \* parallel initialization: index -> worker
    wdone       \* parallel initialization: the cells already written

vars == <<num_rows, num_cols, maze, maze0, pc, i, j, written, last, back,
          nwrites, rd, axis, owner, wdone>>

---------------------------------------------------------------------------
(* Bounds *)

\* Largest grid dimension explored.
MaxDim == 2

\* Number of external writes (walls, visited) the driver performs.
MaxWrites == 1

\* Dimensions handed to initialize_maze: non-positive ones included.
Dims == -1..MaxDim

\* Positive dimensions.
PosDims == 1..MaxDim

\* Integer arguments handed to is_in_range, and stored coordinates that do
\* not match a room's position: negative, inside, and beyond the grid.
\* (Far from INT_MIN / INT_MAX: row +/- 1 and col +/- 1 do not overflow.)
ArgInts == -2..(MaxDim + 1)

\* Grids used in the concurrent-lookup specification.
ConcDims == {<<1, 1>>, <<1, 2>>, <<2, 1>>, <<2, 2>>}

Readers == {"r1", "r2"}

Workers == {"w1", "w2"}

---------------------------------------------------------------------------
(* Data *)

\* The "unset wall" value initialize_maze stores.
UNSET == -1

Direction == {"NORTH", "SOUTH", "WEST", "EAST"}

NULL == <<>>

\* The positions of an nr x nc array.
Cells(nr, nc) == (0..(nr - 1)) \X (0..(nc - 1))

\* Values an external writer stores in a wall slot.
WallVals == {1}

\* What uninitialized storage may hold.
GarbageRooms ==
    { [row |-> MaxDim, col |-> -1, walls |-> <<0, 1, 0, 1>>, visited |-> 1],
      [row |-> 0, col |-> 0, walls |-> <<0, 0, 0, 0>>, visited |-> 0] }

---------------------------------------------------------------------------
(* is_in_range *)

is_in_range_gt(row, col, nr, nc) ==
    IF row > nr \/ row < 0 \/ col >= nc \/ col < 0 THEN 0 ELSE 1

is_in_range_noneg(row, col, nr, nc) ==
    IF row >= nr \/ col >= nc \/ col < 0 THEN 0 ELSE 1

is_in_range(row, col, nr, nc) ==
    IF row >= nr \/ row < 0 \/ col >= nc \/ col < 0 THEN 0 ELSE 1

---------------------------------------------------------------------------
(* get_neighbor *)

CheckCoord_flip(room, dir) ==
    IF dir = "NORTH" THEN <<room.row + 1, room.col>>
    ELSE IF dir = "SOUTH" THEN <<room.row + 1, room.col>>
    ELSE IF dir = "WEST" THEN <<room.row, room.col - 1>>
    ELSE <<room.row, room.col + 1>>

\* The coordinate get_neighbor hands to is_in_range, from the fields the
\* room stores.
CheckCoord(room, dir) ==
    IF dir = "NORTH" THEN <<room.row - 1, room.col>>
    ELSE IF dir = "SOUTH" THEN <<room.row + 1, room.col>>
    ELSE IF dir = "WEST" THEN <<room.row, room.col - 1>>
    ELSE <<room.row, room.col + 1>>

IndexCoord_west(room, dir) ==
    IF dir = "NORTH" THEN <<room.row - 1, room.col>>
    ELSE IF dir = "SOUTH" THEN <<room.row + 1, room.col>>
    ELSE IF dir = "WEST" THEN <<room.row, room.col + 1>>
    ELSE <<room.row, room.col + 1>>

IndexCoord_south(room, dir) ==
    IF dir = "NORTH" THEN <<room.row - 1, room.col>>
    ELSE IF dir = "SOUTH" THEN <<room.row, room.col>>
    ELSE IF dir = "WEST" THEN <<room.row, room.col - 1>>
    ELSE <<room.row, room.col + 1>>

\* The element get_neighbor addresses, &maze[..][..], from the fields the
\* room stores (read again after the check).
IndexCoord(room, dir) ==
    IF dir = "NORTH" THEN <<room.row - 1, room.col>>
    ELSE IF dir = "SOUTH" THEN <<room.row + 1, room.col>>
    ELSE IF dir = "WEST" THEN <<room.row, room.col - 1>>
    ELSE <<room.row, room.col + 1>>

\* A get_neighbor that marks the neighbour it returns.
get_neighbor_marks(nr, nc, m, room, dir) ==
    LET c == CheckCoord(m[room], dir) IN
    IF is_in_range(c[1], c[2], nr, nc) = 1
    THEN [ret |-> IndexCoord(m[room], dir),
          maze |-> [m EXCEPT ![IndexCoord(m[room], dir)].visited = 1]]
    ELSE [ret |-> NULL, maze |-> m]

\* A get_neighbor that steps the room's own coordinate (--room->row) when
\* it looks north.
get_neighbor_decr(nr, nc, m, room, dir) ==
    LET c == CheckCoord(m[room], dir) IN
    IF is_in_range(c[1], c[2], nr, nc) = 1
    THEN [ret |-> IndexCoord(m[room], dir),
          maze |-> IF dir = "NORTH"
                   THEN [m EXCEPT ![room].row = m[room].row - 1]
                   ELSE m]
    ELSE [ret |-> NULL, maze |-> m]

\* get_neighbor(num_rows, num_cols, maze, room, dir): the pointer returned
\* and the grid after the call (the function assigns through no pointer).
get_neighbor(nr, nc, m, room, dir) ==
    LET c == CheckCoord(m[room], dir) IN
    IF is_in_range(c[1], c[2], nr, nc) = 1
    THEN [ret |-> IndexCoord(m[room], dir), maze |-> m]
    ELSE [ret |-> NULL, maze |-> m]

---------------------------------------------------------------------------
(* initialize_maze *)

Room_swapped(ii, jj) ==
    [row |-> jj, col |-> ii, walls |-> <<UNSET, UNSET, UNSET, UNSET>>, visited |-> 0]

\* The room initialize_maze builds for position (ii, jj).
Room(ii, jj) ==
    [row |-> ii, col |-> jj, walls |-> <<UNSET, UNSET, UNSET, UNSET>>, visited |-> 0]

\* A cell write that copies the visited flag of the cell to its west.
WriteCell_dep(m, ii, jj) ==
    [m EXCEPT ![<<ii, jj>>] =
        [Room(ii, jj) EXCEPT !.visited =
            IF jj > 0 THEN m[<<ii, jj - 1>>].visited ELSE 0]]

\* maze[i][j] = rooms.  (The loop tests keep (ii, jj) inside the storage; a
\* store outside it would not land in this grid's cell (ii, jj).)
WriteCell(m, ii, jj) ==
    IF <<ii, jj>> \in DOMAIN m THEN [m EXCEPT ![<<ii, jj>>] = Room(ii, jj)] ELSE m

OuterTest(ii, nr) == ii < nr

InnerTest_le(jj, nc) == jj <= nc

InnerTest(jj, nc) == jj < nc

\* The two nested loops, from (ii, jj) on.
RECURSIVE InitLoop(_, _, _, _, _)
InitLoop(nr, nc, m, ii, jj) ==
    IF OuterTest(ii, nr)
    THEN IF InnerTest(jj, nc)
         THEN InitLoop(nr, nc, WriteCell(m, ii, jj), ii, jj + 1)
         ELSE InitLoop(nr, nc, m, ii + 1, 0)
    ELSE m

\* The grid after initialize_maze(nr, nc, m) has returned.
initialize_maze(nr, nc, m) == InitLoop(nr, nc, m, 0, 0)

---------------------------------------------------------------------------
(* State shared by the specifications *)

NoCall ==
    [fn |-> "none", row |-> 0, col |-> 0, nr |-> 0, nc |-> 0, ret_int |-> 0,
     room |-> NULL, dir |-> "-", ret |-> NULL, kept |-> TRUE]

NoBack == [called |-> FALSE, ret |-> NULL, kept |-> TRUE]

IdleReader == [pc |-> "idle", room |-> NULL, dir |-> "-", ret |-> NULL, alone |-> NULL]

\* Everything but the grid and its dimensions, before anything has run.
Quiet ==
    /\ i = 0
    /\ j = 0
    /\ written = <<>>
    /\ last = NoCall
    /\ back = NoBack
    /\ nwrites = 0
    /\ rd = [r \in Readers |-> IdleReader]

\* No parallel initialization is in progress.
NoPar ==
    /\ axis = "rows"
    /\ owner = <<>>
    /\ wdone = {}

---------------------------------------------------------------------------
(* The sequential driver: allocate, initialize_maze, then lookups, bounds  *)
(* checks and writes to walls / visited.                                   *)

\* The caller has allocated num_rows x num_cols rooms and not yet written them.
Alloc ==
    /\ num_rows \in Dims
    /\ num_cols \in Dims
    /\ maze \in [Cells(num_rows, num_cols) -> GarbageRooms]
    /\ pc = "alloc"
    /\ Quiet
    /\ NoPar

Init ==
    /\ Alloc
    /\ maze0 = <<>>

InitializeMazeCall ==
    /\ pc = "alloc"
    /\ pc' = "init"
    /\ i' = 0
    /\ j' = 0
    /\ UNCHANGED <<num_rows, num_cols, maze, maze0, written, last, back, nwrites,
                   rd, axis, owner, wdone>>

\* One evaluation of the loop tests and the loop body or loop exit it selects.
InitializeMazeStep ==
    /\ pc = "init"
    /\ IF OuterTest(i, num_rows)
       THEN IF InnerTest(j, num_cols)
            THEN /\ maze' = WriteCell(maze, i, j)
                 /\ written' = Append(written, <<i, j>>)
                 /\ j' = j + 1
                 /\ UNCHANGED <<i, pc>>
            ELSE /\ i' = i + 1
                 /\ j' = 0
                 /\ UNCHANGED <<maze, written, pc>>
       ELSE /\ pc' = "ready"
            /\ UNCHANGED <<maze, written, i, j>>
    /\ UNCHANGED <<num_rows, num_cols, maze0, last, back, nwrites, rd, axis,
                   owner, wdone>>

IsInRange(row, col) ==
    /\ pc = "ready"
    /\ last' = [NoCall EXCEPT !.fn = "is_in_range", !.row = row, !.col = col,
                              !.nr = num_rows, !.nc = num_cols,
                              !.ret_int = is_in_range(row, col, num_rows, num_cols)]
    /\ back' = NoBack
    /\ UNCHANGED <<num_rows, num_cols, maze, maze0, pc, i, j, written, nwrites,
                   rd, axis, owner, wdone>>

GetNeighbor(room, dir) ==
    /\ pc = "ready"
    /\ LET res == get_neighbor(num_rows, num_cols, maze, room, dir) IN
        /\ last' = [NoCall EXCEPT !.fn = "get_neighbor", !.room = room,
                                  !.dir = dir, !.ret = res.ret,
                                  !.kept = (res.maze = maze)]
        /\ maze' = res.maze
    /\ back' = NoBack
    /\ UNCHANGED <<num_rows, num_cols, maze0, pc, i, j, written, nwrites, rd,
                   axis, owner, wdone>>

Opposite(dir) ==
    IF dir = "NORTH" THEN "SOUTH"
    ELSE IF dir = "SOUTH" THEN "NORTH"
    ELSE IF dir = "WEST" THEN "EAST"
    ELSE "WEST"

\* The driver looks back from the room the last lookup returned.
GetNeighborBack ==
    /\ pc = "ready"
    /\ last.fn = "get_neighbor"
    /\ last.ret # NULL
    /\ last.ret \in DOMAIN maze
    /\ ~back.called
    /\ LET res == get_neighbor(num_rows, num_cols, maze, last.ret, Opposite(last.dir)) IN
        /\ back' = [called |-> TRUE, ret |-> res.ret, kept |-> (res.maze = maze)]
        /\ maze' = res.maze
    /\ UNCHANGED <<num_rows, num_cols, maze0, pc, i, j, written, last, nwrites,
                   rd, axis, owner, wdone>>

WriteWall(c, k, v) ==
    /\ pc = "ready"
    /\ nwrites < MaxWrites
    /\ maze' = [maze EXCEPT ![c].walls[k] = v]
    /\ nwrites' = nwrites + 1
    /\ UNCHANGED <<num_rows, num_cols, maze0, pc, i, j, written, last, back, rd,
                   axis, owner, wdone>>

WriteVisited(c, v) ==
    /\ pc = "ready"
    /\ nwrites < MaxWrites
    /\ maze' = [maze EXCEPT ![c].visited = v]
    /\ nwrites' = nwrites + 1
    /\ UNCHANGED <<num_rows, num_cols, maze0, pc, i, j, written, last, back, rd,
                   axis, owner, wdone>>

GetNeighborAny == \E room \in DOMAIN maze, dir \in Direction : GetNeighbor(room, dir)

IsInRangeAny == \E row \in Dims, col \in Dims : IsInRange(row, col)

WriteWallAny == \E c \in DOMAIN maze, k \in 1..4, v \in WallVals : WriteWall(c, k, v)

WriteVisitedAny == \E c \in DOMAIN maze : WriteVisited(c, 1)

Next ==
    \/ InitializeMazeCall
    \/ InitializeMazeStep
    \/ IsInRangeAny
    \/ GetNeighborAny
    \/ GetNeighborBack
    \/ WriteWallAny
    \/ WriteVisitedAny

Spec == Init /\ [][Next]_vars

---------------------------------------------------------------------------
(* initialize_maze on its own: the call runs to its return.                *)

\* As Init, and the allocated content is remembered.
InitTracked ==
    /\ Alloc
    /\ maze0 = maze

InitNext ==
    \/ InitializeMazeCall
    \/ InitializeMazeStep

\* The driver calls initialize_maze and the call keeps executing.
SpecInit == InitTracked /\ [][InitNext]_vars /\ WF_vars(InitNext)

---------------------------------------------------------------------------
(* is_in_range on its own: any arguments, no grid needed.                  *)

InitRange ==
    /\ num_rows \in ArgInts
    /\ num_cols \in ArgInts
    /\ maze = <<>>
    /\ maze0 = <<>>
    /\ pc = "ready"
    /\ Quiet
    /\ NoPar

IsInRangeWide == \E row \in ArgInts, col \in ArgInts : IsInRange(row, col)

SpecRange == InitRange /\ [][IsInRangeWide]_vars

---------------------------------------------------------------------------
(* get_neighbor on a grid one of whose rooms stores coordinates that are   *)
(* not its position (the caller broke the precondition).                   *)

InitStray ==
    /\ num_rows \in PosDims
    /\ num_cols \in PosDims
    /\ \E c \in Cells(num_rows, num_cols), sr \in ArgInts, sc \in ArgInts,
          g \in GarbageRooms :
          maze = [initialize_maze(num_rows, num_cols,
                                  [d \in Cells(num_rows, num_cols) |-> g])
                      EXCEPT ![c].row = sr, ![c].col = sc]
    /\ maze0 = <<>>
    /\ pc = "ready"
    /\ Quiet
    /\ NoPar

SpecStray == InitStray /\ [][GetNeighborAny]_vars

---------------------------------------------------------------------------
(* Parallel initialization: the rows, or the columns, are divided among    *)
(* workers, and each worker performs the cell write for its share.         *)

Share(c) == IF axis = "rows" THEN c[1] ELSE c[2]

InitPar ==
    /\ num_rows \in PosDims
    /\ num_cols \in PosDims
    /\ \E g \in GarbageRooms : maze = [c \in Cells(num_rows, num_cols) |-> g]
    /\ maze0 = maze
    /\ axis \in {"rows", "cols"}
    /\ owner \in [(IF axis = "rows" THEN 0..(num_rows - 1) ELSE 0..(num_cols - 1))
                    -> Workers]
    /\ wdone = {}
    /\ pc = "init"
    /\ Quiet

WorkerWrite(w, c) ==
    /\ pc = "init"
    /\ c \notin wdone
    /\ owner[Share(c)] = w
    /\ maze' = WriteCell(maze, c[1], c[2])
    /\ wdone' = wdone \cup {c}
    /\ UNCHANGED <<num_rows, num_cols, maze0, pc, i, j, written, last, back,
                   nwrites, rd, axis, owner>>

WorkersJoin ==
    /\ pc = "init"
    /\ wdone = Cells(num_rows, num_cols)
    /\ pc' = "ready"
    /\ UNCHANGED <<num_rows, num_cols, maze, maze0, i, j, written, last, back,
                   nwrites, rd, axis, owner, wdone>>

WorkerWriteAny == \E w \in Workers, c \in Cells(num_rows, num_cols) : WorkerWrite(w, c)

ParNext ==
    \/ WorkerWriteAny
    \/ WorkersJoin

SpecPar == InitPar /\ [][ParNext]_vars

---------------------------------------------------------------------------
(* Concurrent lookups: readers run get_neighbor step by step (the check    *)
(* reads the room's coordinates, the addressing reads them again) while    *)
(* writers store into walls and visited.                                   *)

InitConc ==
    /\ \E d \in ConcDims : num_rows = d[1] /\ num_cols = d[2]
    /\ \E g \in GarbageRooms :
          maze = initialize_maze(num_rows, num_cols,
                                 [c \in Cells(num_rows, num_cols) |-> g])
    /\ maze0 = <<>>
    /\ pc = "ready"
    /\ Quiet
    /\ NoPar

ReaderCall(r, room, dir) ==
    /\ rd[r].pc \in {"idle", "returned"}
    /\ rd' = [rd EXCEPT ![r] =
                [pc |-> "check", room |-> room, dir |-> dir, ret |-> NULL,
                 alone |-> get_neighbor(num_rows, num_cols, maze, room, dir).ret]]
    /\ UNCHANGED <<num_rows, num_cols, maze, maze0, pc, i, j, written, last,
                   back, nwrites, axis, owner, wdone>>

ReaderCheck(r) ==
    /\ rd[r].pc = "check"
    /\ LET c == CheckCoord(maze[rd[r].room], rd[r].dir) IN
         IF is_in_range(c[1], c[2], num_rows, num_cols) = 1
         THEN rd' = [rd EXCEPT ![r].pc = "index"]
         ELSE rd' = [rd EXCEPT ![r].pc = "returned", ![r].ret = NULL]
    /\ UNCHANGED <<num_rows, num_cols, maze, maze0, pc, i, j, written, last,
                   back, nwrites, axis, owner, wdone>>

ReaderIndex(r) ==
    /\ rd[r].pc = "index"
    /\ rd' = [rd EXCEPT ![r].pc = "returned",
                        ![r].ret = IndexCoord(maze[rd[r].room], rd[r].dir)]
    /\ UNCHANGED <<num_rows, num_cols, maze, maze0, pc, i, j, written, last,
                   back, nwrites, axis, owner, wdone>>

ReaderCallAny ==
    \E r \in Readers, room \in DOMAIN maze, dir \in Direction : ReaderCall(r, room, dir)

ReaderCheckAny == \E r \in Readers : ReaderCheck(r)

ReaderIndexAny == \E r \in Readers : ReaderIndex(r)

ConcNext ==
    \/ ReaderCallAny
    \/ ReaderCheckAny
    \/ ReaderIndexAny
    \/ WriteWallAny
    \/ WriteVisitedAny

SpecConc == InitConc /\ [][ConcNext]_vars

---------------------------------------------------------------------------
(* Properties *)

\* The coordinate one step from array position p in direction dir.
PosOffset(p, dir) ==
    IF dir = "NORTH" THEN <<p[1] - 1, p[2]>>
    ELSE IF dir = "SOUTH" THEN <<p[1] + 1, p[2]>>
    ELSE IF dir = "WEST" THEN <<p[1], p[2] - 1>>
    ELSE <<p[1], p[2] + 1>>

Grid == Cells(num_rows, num_cols)

\* C1: is_in_range(row, col, num_rows, num_cols) returns 1 exactly when
\* 0 <= row < num_rows and 0 <= col < num_cols, and 0 otherwise, for negative
\* arguments and non-positive dimensions too.
C1_InRangeIff ==
    last.fn = "is_in_range" =>
        /\ last.ret_int \in {0, 1}
        /\ last.ret_int = 1 <=>
              (0 <= last.row /\ last.row < last.nr /\ 0 <= last.col /\ last.col < last.nc)

\* is_in_range was called with a negative row and a non-positive width.
C1_Witness ==
    /\ last.fn = "is_in_range"
    /\ last.row < 0
    /\ last.nc <= 0
    /\ last.nr > 0
    /\ last.ret_int = 0

\* C2: in an initialized grid, get_neighbor of the room at (r, c) returns NULL
\* exactly when the coordinate one step in the direction is outside the grid,
\* and otherwise the room at that coordinate; in a 1 x 1 grid it returns NULL
\* in all four directions.
C2_NeighborAtOffset ==
    last.fn = "get_neighbor" =>
        /\ last.ret = NULL <=> PosOffset(last.room, last.dir) \notin Grid
        /\ PosOffset(last.room, last.dir) \in Grid =>
              last.ret = PosOffset(last.room, last.dir)
        /\ (num_rows = 1 /\ num_cols = 1) => last.ret = NULL

\* A lookup to the east returned the room next door.
C2_Witness ==
    /\ last.fn = "get_neighbor"
    /\ last.room = <<0, 0>>
    /\ last.dir = "EAST"
    /\ last.ret = <<0, 1>>

\* C3: for R, C >= 1 and any prior content of the storage, after
\* initialize_maze returns every room at (i, j) has row = i, col = j, four
\* walls of -1 and visited = 0.
C3_AllRoomsInitialized ==
    (pc = "ready" /\ num_rows >= 1 /\ num_cols >= 1) =>
        \A c \in Grid :
            /\ maze[c].row = c[1]
            /\ maze[c].col = c[2]
            /\ \A k \in 1..4 : maze[c].walls[k] = -1
            /\ Len(maze[c].walls) = 4
            /\ maze[c].visited = 0

\* initialize_maze has returned on a grid whose storage held other content.
C3_Witness ==
    /\ pc = "ready"
    /\ num_rows = MaxDim
    /\ num_cols >= 1
    /\ \E c \in Grid : maze0[c].visited = 1 /\ maze0[c].row # c[1]
    /\ \E c \in Grid : maze0[c].visited = 0

\* C4: whenever a lookup from a room succeeds, the lookup from the room it
\* returned, in the opposite direction, returns the original room.
C4_RoundTrip ==
    back.called => back.ret = last.room

\* A lookup to the north succeeded and the driver looked back south.
C4_Witness ==
    /\ back.called
    /\ last.dir = "NORTH"
    /\ back.ret = last.room

\* C5: a get_neighbor call leaves the whole grid (every room's row, col,
\* walls and visited, the input room included) as it was, whether it returns
\* a room or NULL.
C5_LookupWritesNothing ==
    /\ last.fn = "get_neighbor" => last.kept
    /\ back.called => back.kept

\* A lookup returned a room that an external write had marked visited, and
\* the grid after the call was the grid before it.
C5_Witness ==
    /\ last.fn = "get_neighbor"
    /\ last.ret # NULL
    /\ last.kept
    /\ nwrites > 0
    /\ maze[last.ret].visited = 1

\* C6: once initialize_maze has completed, every room's stored row and col
\* equal its position in the array, whatever lookups, bounds checks and
\* external writes to walls and visited have happened since.
C6_CoordsMatchPosition ==
    pc = "ready" => \A c \in Grid : maze[c].row = c[1] /\ maze[c].col = c[2]

\* Lookups went north and back after the external writes were made.
C6_Witness ==
    /\ pc = "ready"
    /\ nwrites = MaxWrites
    /\ back.called
    /\ \E c \in Grid : maze[c].walls[1] = 1

\* C7: when the rows or the columns are divided among workers that each do
\* the cell write for their share, the final grid is the grid the
\* sequential row-major initialize_maze produces, under every interleaving.
C7_ParallelEqualsSequential ==
    wdone = Grid => maze = initialize_maze(num_rows, num_cols, maze0)

\* Both workers wrote columns of a grid that held garbage, and have joined.
C7_Witness ==
    /\ pc = "ready"
    /\ axis = "cols"
    /\ wdone = Grid
    /\ \E a \in DOMAIN owner, b \in DOMAIN owner : owner[a] # owner[b]
    /\ \E c \in Grid : maze0[c].visited = 1
    /\ num_rows = MaxDim

\* C8: a get_neighbor call that ran concurrently with other lookups and with
\* writers of walls and visited returns what the same call returns when
\* executed alone: NULL, or the room at the offset coordinate.
C8_ConcurrentLookupSameResult ==
    \A r \in Readers :
        rd[r].pc = "returned" =>
            /\ rd[r].ret = rd[r].alone
            /\ rd[r].ret = (IF PosOffset(rd[r].room, rd[r].dir) \in Grid
                            THEN PosOffset(rd[r].room, rd[r].dir)
                            ELSE NULL)

\* A lookup has returned a room, a writer has set the visited flag of its
\* input room, and another lookup of the same room is between its check and
\* its addressing.
C8_Witness ==
    /\ rd["r1"].pc = "returned"
    /\ rd["r1"].ret # NULL
    /\ maze[rd["r1"].room].visited = 1
    /\ rd["r2"].pc = "index"
    /\ rd["r2"].room = rd["r1"].room

\* No cell outside the grid was written, and none twice.
WrittenOnce ==
    /\ \A k \in 1..Len(written) : written[k] \in Grid
    /\ \A k \in 1..Len(written), l \in 1..Len(written) :
          written[k] = written[l] => k = l

\* On return every cell was written: num_rows * num_cols writes, none when a
\* dimension is not positive.
WrittenAll ==
    /\ \A c \in Grid : \E k \in 1..Len(written) : written[k] = c
    /\ Len(written) = (IF num_rows <= 0 \/ num_cols <= 0 THEN 0 ELSE num_rows * num_cols)

\* C9: for every num_rows and num_cols initialize_maze terminates, having
\* written each cell (i, j) of the grid exactly once and no other cell; with
\* a non-positive dimension it terminates without writing.
C9_TerminatesEachCellOnce ==
    /\ <>(pc = "ready")
    /\ [](WrittenOnce)
    /\ [](pc = "ready" => WrittenAll)

\* initialize_maze has returned from the largest grid.
C9_Witness ==
    /\ pc = "ready"
    /\ Len(written) = MaxDim * MaxDim
    /\ written[1] = <<0, 0>>
    /\ written[Len(written)] = <<MaxDim - 1, MaxDim - 1>>

\* C10: whatever coordinates the input room stores, get_neighbor returns
\* NULL or a room inside the grid: it never addresses the array outside
\* [0, num_rows) x [0, num_cols).
C10_ResultInsideGrid ==
    last.fn = "get_neighbor" => (last.ret = NULL \/ last.ret \in Grid)

\* The input room stored row -1 and the lookup to the south returned a room.
C10_Witness ==
    /\ last.fn = "get_neighbor"
    /\ maze[last.room].row = -1
    /\ last.dir = "SOUTH"
    /\ last.ret \in Grid

====
